---- MODULE Spec2Model ----
(***************************************************************************)
(* Backup creation and backup-file retrieval of src/server/org_config.go:  *)
(* the HTTP handler BackupHandler (handleCreate, handleFetchFile) and the  *)
(* remote client BackupService (CreateBackup, FetchBackupFile); and the    *)
(* log viewer config of an organization (validLogViewerConfig,             *)
(* ReplaceLogViewerOrganizationConfig) of the same file.                   *)
(*                                                                         *)
(* The storage engine behind h.BackupService (CreateBackup,                *)
(* InternalBackupPath, FetchBackupFile), the metadata snapshotter behind   *)
(* h.KVBackupService (Backup), HandleHTTPError and CheckError are called   *)
(* by the source but defined elsewhere in the repository; they are         *)
(* modelled from spec.md sections 4.1, 4.2 and 7.                          *)
(***************************************************************************)
EXTENDS Integers, Sequences, FiniteSets, TLC

\* ------------------------------------------------------------------ bounds
MaxID == 2          \* the engine allocates at most this many backup IDs
MaxLen == 2         \* longest file content of the retrieval specification
MaxBuf == 2         \* largest transfer buffer of the retrieval specification
MaxCols == 2        \* most columns of a log viewer config

\* --------------------------------------------------------------- constants
Reqs == {"c1", "c2"}                 \* concurrent create requests
Nil == <<>>                          \* a nil error: no cause
DefaultFilename == "influxd.bolt"    \* bolt.DefaultFilename, the reserved name
ShardNames == {"s1", "s2"}
Names == ShardNames \cup {DefaultFilename}
ShardLists == {<<>>, <<"s2", "s1">>}   \* what the engine may stage
Bytes == {0, 1}
Snapshot == <<1, 0>>                 \* the metadata snapshot's serialization
ShardContent == <<1>>

IDs == 0..MaxID

\* The engine's directory of a backup ID (storage engine, spec 4.1 step 1):
\* one directory per ID.
InternalBackupPath(i) == <<"backup", i>>
Dirs == {InternalBackupPath(i) : i \in IDs}

VARIABLES
    nextID,    \* engine: the last backup ID allocated
    disk,      \* disk[d]: does directory d exist, and the names linked in it
    data,      \* data[d][n]: the bytes of file n of directory d
    pc,        \* pc[r]: the position of create request r in handleCreate
    id,        \* id[r]: handleCreate's id
    files,     \* files[r]: handleCreate's files
    err,       \* err[r]: handleCreate's err, a list of causes (multierr)
    metaFile,  \* metaFile[r]: is the handle of os.OpenFile open
    resp,      \* resp[r]: what was written to the ResponseWriter w
    written,   \* written[r]: the bytes KVBackupService.Backup has written
    cres,      \* cres[r]: what the client's CreateBackup returned
    issued,    \* history: the IDs the engine returned, in order
    wrote,     \* history: <<id of the writing request, directory written>>
    hist,      \* history: hist[r], what request r did
    bufSize,   \* the length of the transfer buffer
    fpc,       \* the position of the fetch: client, router, handler, client
    fargs,     \* FetchBackupFile's backupID and backupFile
    fparams,   \* the router's backup_id and backup_file
    fh,        \* the engine's open file: its directory and name
    fpos,      \* the engine's read offset in the file
    ferr,      \* handleFetchFile's err
    fresp,     \* what was written to the fetch's ResponseWriter w
    cpos,      \* the client's read offset in resp.Body
    csink,     \* the bytes the client wrote to the caller's sink w
    cerr,      \* what the client's FetchBackupFile returned
    cancelled, \* has the caller cancelled the ctx of FetchBackupFile
    fknown,    \* history: the <<ID, name>> pairs of the manifests delivered
               \* before the fetch request came in
    lpc,       \* the position of ReplaceLogViewerOrganizationConfig
    lcfg,      \* the LogViewerConfig of the request body
    lstore,    \* the store: the configs Update was called with, in order
    lstatus    \* the status written to the ResponseWriter w

createVars == <<nextID, pc, id, files, err, metaFile, resp, written, cres,
                issued, wrote, hist>>

fetchVars == <<bufSize, fpc, fargs, fparams, fh, fpos, ferr, fresp, cpos,
               csink, cerr, cancelled, fknown>>

logViewerVars == <<lpc, lcfg, lstore, lstatus>>

\* ------------------------------------------------------------------ helpers
Range(s) == {s[i] : i \in 1..Len(s)}
Min(a, b) == IF a < b THEN a ELSE b

NoDir == [exists |-> FALSE, linked |-> {}]
EmptyData == [n \in Names |-> <<>>]
NoManifest == [state |-> "none", ID |-> 0, Files |-> <<>>]
NoResp == [status |-> "none", manifest |-> NoManifest, error |-> Nil]
NoConfig == [Columns |-> <<>>]
NoStatus == [code |-> "none", msg |-> Nil]
NoResult == [returned |-> FALSE, ID |-> 0, Files |-> <<>>, err |-> Nil]
NoHist == [rm |-> "none", trigger |-> Nil, reported |-> Nil, snapOK |-> FALSE,
           engineFiles |-> <<>>, staged |-> Nil]

\* A write of byte b at offset pos of a file holding cur (a handle opened
\* without O_APPEND writes at its own offset).
WriteAt(cur, pos, b) ==
    IF pos < Len(cur) THEN [cur EXCEPT ![pos + 1] = b] ELSE Append(cur, b)

\* Mutant: the error of the rollback is dropped.
multierrAppend_DropRight(left, right) == left

\* multierr.Append(left, right): nil operands vanish, causes are kept in order.
multierrAppend(left, right) == left \o right

\* Mutant: the handler works in the directory of ID 1 whatever its id.
internalBackupPath_Fixed(i) == InternalBackupPath(1)

\* handleCreate line 285: the directory the handler works in.
internalBackupPath(i) == InternalBackupPath(i)

\* Mutant: the rollback removes every backup directory.
RemoveAll_Parent(dk, path) == [d \in DOMAIN dk |-> NoDir]

\* Mutant: os.Remove in place of os.RemoveAll, which removes only a directory
\* that is empty.
RemoveAll_OnlyEmpty(dk, path) ==
    IF dk[path].linked = {} THEN [dk EXCEPT ![path] = NoDir] ELSE dk

\* os.RemoveAll(path) when it succeeds, lines 289, 295, 306: the directory is
\* gone with everything in it.
RemoveAll(dk, path) == [dk EXCEPT ![path] = NoDir]

\* Mutant: the metadata name is put in front of the shard names.
appendMeta_Prepend(fs) == <<DefaultFilename>> \o fs

\* handleCreate line 299: files = append(files, bolt.DefaultFilename)
appendMeta(fs) == Append(fs, DefaultFilename)

\* Mutant: the manifest lists the engine's files only.
manifestFiles_NoMeta(r) == hist[r].engineFiles

\* handleCreate lines 301-304: the Files of the manifest are the handler's
\* files.
manifestFiles(r) == appendMeta(files[r])

\* Mutant: the error of Backup is not looked at.
AfterBackup_Ignore(e) == "encode"

\* handleCreate lines 294-298: a failed Backup goes to the rollback, a
\* successful one goes on to the manifest.
AfterBackup(e) == IF e # Nil THEN "rollback" ELSE "encode"

\* Mutant: the directory is removed after a delivered manifest as well.
AfterEncode_Cleanup(e) == "rollback"

\* handleCreate lines 304-310: a failed Encode goes to the rollback, a
\* successful one ends the handler.
AfterEncode(e) == IF e # Nil THEN "rollback" ELSE "done"

\* An open file of a fetch (line 326) keeps its bytes readable after the
\* name is unlinked.
HeldOpen(path, n) ==
    fh.open /\ InternalBackupPath(fh.id) = path /\ fh.name = n

\* Mutant: a failed CreateBackup goes to the rollback like the later failures.
AfterCreateBackup_Rollback(e) == IF e # Nil THEN "rollback" ELSE "open"

\* handleCreate lines 280-283: a failed CreateBackup is reported and the
\* handler returns; a successful one goes on to the metadata file.
AfterCreateBackup(e) == IF e # Nil THEN "report" ELSE "open"

\* ------------------------------------------------- create: BackupHandler.handleCreate

\* Mutant: the engine hands out the lowest ID whose directory is absent, so
\* the ID of a rolled-back backup is used again.
CreateBackup_Reuse(out, sl, k) ==
    LET free == {i \in 1..MaxID : ~disk[InternalBackupPath(i)].exists}
        new == IF free = {} THEN nextID + 1
               ELSE CHOOSE i \in free : \A j \in free : i <= j
    IN IF out = "alloc"
       THEN [id |-> 0, files |-> <<>>, err |-> <<"alloc">>, newID |-> nextID,
             dir |-> Nil, staged |-> {}]
       ELSE IF out = "staging"
       THEN [id |-> 0, files |-> <<>>, err |-> <<"staging">>, newID |-> new,
             dir |-> InternalBackupPath(new),
             staged |-> Range(SubSeq(sl, 1, k))]
       ELSE [id |-> new, files |-> sl, err |-> Nil, newID |-> new,
             dir |-> InternalBackupPath(new), staged |-> Range(sl)]

\* The engine's CreateBackup (spec 4.1 step 1, spec 5): the engine atomically
\* takes the next ID, makes the ID's directory, stages the shard files sl
\* into it and returns the ID and the names.  It may fail before allocating
\* (out = "alloc"), or after having made the directory with the first k shard
\* files (out = "staging"); it then returns 0, nil and the error.
CreateBackup(out, sl, k) ==
    IF out = "alloc"
    THEN [id |-> 0, files |-> <<>>, err |-> <<"alloc">>, newID |-> nextID,
          dir |-> Nil, staged |-> {}]
    ELSE IF out = "staging"
    THEN [id |-> 0, files |-> <<>>, err |-> <<"staging">>, newID |-> nextID + 1,
          dir |-> InternalBackupPath(nextID + 1),
          staged |-> Range(SubSeq(sl, 1, k))]
    ELSE [id |-> nextID + 1, files |-> sl, err |-> Nil, newID |-> nextID + 1,
          dir |-> InternalBackupPath(nextID + 1), staged |-> Range(sl)]

\* Lines 279-283: id, files, err := h.BackupService.CreateBackup(ctx); with
\* an error the handler reports it and returns, without it the handler goes
\* on with id and files.
handleCreate_CreateBackup(r) ==
    /\ pc[r] = "idle"
    /\ \E out \in {"ok", "alloc", "staging"}, sl \in ShardLists :
       \E k \in (IF out = "staging" THEN 0..Len(sl) ELSE {Len(sl)}) :
        /\ out # "alloc" => nextID < MaxID
        /\ LET res == CreateBackup(out, sl, k) IN
           /\ nextID' = res.newID
           /\ IF res.dir = Nil
              THEN UNCHANGED <<disk, data, wrote>>
              ELSE /\ disk' = [disk EXCEPT ![res.dir] =
                                  [exists |-> TRUE, linked |-> res.staged]]
                   /\ data' = [data EXCEPT ![res.dir] =
                                  [n \in Names |-> IF n \in res.staged
                                                   THEN ShardContent ELSE <<>>]]
                   /\ wrote' = wrote \cup {<<res.newID, res.dir>>}
           /\ IF res.err # Nil
              THEN /\ err' = [err EXCEPT ![r] = res.err]
                   /\ hist' = [hist EXCEPT ![r].trigger = res.err,
                                           ![r].staged = res.dir]
                   /\ pc' = [pc EXCEPT ![r] = AfterCreateBackup(res.err)]
                   /\ UNCHANGED <<id, files, issued>>
              ELSE /\ id' = [id EXCEPT ![r] = res.id]
                   /\ files' = [files EXCEPT ![r] = res.files]
                   /\ issued' = Append(issued, res.id)
                   /\ hist' = [hist EXCEPT ![r].engineFiles = res.files]
                   /\ pc' = [pc EXCEPT ![r] = AfterCreateBackup(res.err)]
                   /\ UNCHANGED err
    /\ UNCHANGED <<metaFile, resp, written, cres>>
    /\ UNCHANGED fetchVars
    /\ UNCHANGED logViewerVars

\* Lines 285-292: os.OpenFile(metaFilename, O_CREATE|O_TRUNC|O_WRONLY) in the
\* directory of id.  It creates or truncates the file, and fails when the
\* directory is missing or for any other reason (a permission error).
handleCreate_OpenFile(r) ==
    /\ pc[r] = "open"
    /\ LET path == internalBackupPath(id[r]) IN
       \/ /\ disk[path].exists
          /\ disk' = [disk EXCEPT ![path].linked = @ \cup {DefaultFilename}]
          /\ data' = [data EXCEPT ![path][DefaultFilename] = <<>>]
          /\ metaFile' = [metaFile EXCEPT ![r] = path]
          /\ wrote' = wrote \cup {<<id[r], path>>}
          /\ pc' = [pc EXCEPT ![r] = "backup"]
          /\ UNCHANGED <<err, hist>>
       \/ /\ err' = [err EXCEPT ![r] = <<"open">>]
          /\ hist' = [hist EXCEPT ![r].trigger = <<"open">>]
          /\ pc' = [pc EXCEPT ![r] = "rollback"]
          /\ UNCHANGED <<disk, data, metaFile, wrote>>
    /\ UNCHANGED <<nextID, id, files, resp, written, cres, issued>>
    /\ UNCHANGED fetchVars
    /\ UNCHANGED logViewerVars

\* Line 294, h.KVBackupService.Backup(ctx, metaFile), one write of it: the
\* snapshotter writes the next byte of the snapshot through the handle.
handleCreate_BackupWrite(r) ==
    /\ pc[r] = "backup"
    /\ written[r] < Len(Snapshot)
    /\ LET path == metaFile[r] IN
       data' = [data EXCEPT ![path][DefaultFilename] =
                   WriteAt(@, written[r], Snapshot[written[r] + 1])]
    /\ written' = [written EXCEPT ![r] = @ + 1]
    /\ UNCHANGED <<nextID, disk, pc, id, files, err, metaFile, resp, cres,
                   issued, wrote, hist>>
    /\ UNCHANGED fetchVars
    /\ UNCHANGED logViewerVars

\* Lines 294-298: Backup returns: nil once the whole snapshot is written, an
\* error at any point.
handleCreate_BackupReturn(r) ==
    /\ pc[r] = "backup"
    /\ \E e \in {Nil, <<"snapshot">>} :
        /\ e = Nil => written[r] = Len(Snapshot)
        /\ err' = [err EXCEPT ![r] = e]
        /\ hist' = [hist EXCEPT ![r].trigger = e, ![r].snapOK = (e = Nil)]
        /\ pc' = [pc EXCEPT ![r] = AfterBackup(e)]
    /\ UNCHANGED <<nextID, disk, data, id, files, metaFile, resp, written, cres,
                   issued, wrote>>
    /\ UNCHANGED fetchVars
    /\ UNCHANGED logViewerVars

\* Lines 299-309: the metadata name is appended to files and the manifest is
\* encoded into w.  A failed write to w leaves nothing or a part of the
\* manifest in the response.
handleCreate_Encode(r) ==
    /\ pc[r] = "encode"
    /\ LET fs == manifestFiles(r) IN
       /\ files' = [files EXCEPT ![r] = fs]
       /\ \/ /\ resp' = [resp EXCEPT ![r] =
                     [status |-> "ok",
                      manifest |-> [state |-> "full", ID |-> id[r], Files |-> fs],
                      error |-> Nil]]
             /\ pc' = [pc EXCEPT ![r] = AfterEncode(Nil)]
             /\ UNCHANGED <<err, hist>>
          \/ /\ \E part \in {"none", "partial"} :
                  resp' = [resp EXCEPT ![r] =
                     [status |-> IF part = "none" THEN "none" ELSE "ok",
                      manifest |-> [state |-> part, ID |-> 0, Files |-> <<>>],
                      error |-> Nil]]
             /\ err' = [err EXCEPT ![r] = <<"encode">>]
             /\ hist' = [hist EXCEPT ![r].trigger = <<"encode">>]
             /\ pc' = [pc EXCEPT ![r] = AfterEncode(<<"encode">>)]
    /\ UNCHANGED <<nextID, disk, data, id, metaFile, written, cres, issued, wrote>>
    /\ UNCHANGED fetchVars
    /\ UNCHANGED logViewerVars

\* Lines 289, 295, 306: err = multierr.Append(err, os.RemoveAll(path)).
\* RemoveAll removes the directory with everything in it and returns nil
\* (also when the directory is not there); when it fails the directory is
\* left, with its files or without them.
handleCreate_RemoveAll(r) ==
    /\ pc[r] = "rollback"
    /\ LET path == internalBackupPath(id[r]) IN
       \/ /\ disk' = RemoveAll(disk, path)
          /\ data' = [data EXCEPT ![path] =
                 [n \in Names |-> IF n \in disk'[path].linked \/ HeldOpen(path, n)
                                  THEN @[n] ELSE <<>>]]
          /\ err' = [err EXCEPT ![r] = multierrAppend(@, Nil)]
          /\ hist' = [hist EXCEPT ![r].rm = "ok"]
       \/ /\ disk[path].exists
          /\ \E left \in {disk[path].linked, {}} :
              /\ disk' = [disk EXCEPT ![path].linked = left]
              /\ data' = [data EXCEPT ![path] =
                     [n \in Names |-> IF n \in left \/ HeldOpen(path, n)
                                      THEN @[n] ELSE <<>>]]
          /\ err' = [err EXCEPT ![r] = multierrAppend(@, <<"remove">>)]
          /\ hist' = [hist EXCEPT ![r].rm = "failed"]
    /\ pc' = [pc EXCEPT ![r] = "report"]
    /\ UNCHANGED <<nextID, id, files, metaFile, resp, written, cres,
                   issued, wrote>>
    /\ UNCHANGED fetchVars
    /\ UNCHANGED logViewerVars

\* Lines 281, 290, 296, 307: h.HandleHTTPError(ctx, err, w); return.  The
\* error report goes into w; the status is the error's unless a part of the
\* manifest went out before.
handleCreate_HandleHTTPError(r) ==
    /\ pc[r] = "report"
    /\ resp' = [resp EXCEPT ![r].status = IF @ = "none" THEN "error" ELSE @,
                            ![r].error = err[r]]
    /\ hist' = [hist EXCEPT ![r].reported = err[r]]
    /\ pc' = [pc EXCEPT ![r] = "done"]
    /\ UNCHANGED <<nextID, disk, data, id, files, err, metaFile, written, cres,
                   issued, wrote>>
    /\ UNCHANGED fetchVars
    /\ UNCHANGED logViewerVars

\* ------------------------------------------- create: the client, BackupService

\* CheckError(resp), of the http package: an error unless the status is a
\* success.
CheckError(rsp) == IF rsp.status = "ok" THEN Nil ELSE <<"status">>

\* Lines 357-372 of BackupService.CreateBackup, given whether hc.Do got a
\* response and the response: every error path returns 0, nil, err.
CreateBackupResult(doOK, rsp) ==
    IF ~doOK
    THEN [returned |-> TRUE, ID |-> 0, Files |-> <<>>, err |-> <<"transport">>]
    ELSE IF CheckError(rsp) # Nil
    THEN [returned |-> TRUE, ID |-> 0, Files |-> <<>>, err |-> CheckError(rsp)]
    ELSE IF rsp.manifest.state # "full"
    THEN [returned |-> TRUE, ID |-> 0, Files |-> <<>>, err |-> <<"decode">>]
    ELSE [returned |-> TRUE, ID |-> rsp.manifest.ID, Files |-> rsp.manifest.Files,
          err |-> Nil]

\* Lines 343-351: NewURL or http.NewRequest fails; no request is sent.
CreateBackup_NoRequest(r) ==
    /\ pc[r] = "idle"
    /\ cres' = [cres EXCEPT ![r] =
          [returned |-> TRUE, ID |-> 0, Files |-> <<>>, err |-> <<"request">>]]
    /\ pc' = [pc EXCEPT ![r] = "returned"]
    /\ UNCHANGED <<nextID, disk, data, id, files, err, metaFile, resp, written,
                   issued, wrote, hist>>
    /\ UNCHANGED fetchVars
    /\ UNCHANGED logViewerVars

\* Lines 357-372: the handler has returned (its locals are gone); hc.Do
\* returns the response, or an error when the response did not arrive.
CreateBackup_Return(r) ==
    /\ pc[r] = "done"
    /\ \E doOK \in BOOLEAN :
        /\ (resp[r].manifest.state = "partial" \/ resp[r].status = "none") => ~doOK
        /\ cres' = [cres EXCEPT ![r] = CreateBackupResult(doOK, resp[r])]
    /\ pc' = [pc EXCEPT ![r] = "returned"]
    /\ id' = [id EXCEPT ![r] = 0]
    /\ files' = [files EXCEPT ![r] = <<>>]
    /\ err' = [err EXCEPT ![r] = Nil]
    /\ metaFile' = [metaFile EXCEPT ![r] = Nil]
    /\ resp' = [resp EXCEPT ![r] = NoResp]
    /\ written' = [written EXCEPT ![r] = 0]
    /\ hist' = [hist EXCEPT ![r] = NoHist]
    /\ UNCHANGED <<nextID, disk, data, issued, wrote>>
    /\ UNCHANGED fetchVars
    /\ UNCHANGED logViewerVars

\* Line 262: the route takes the next POST of the client.
NewRequest(r) ==
    /\ pc[r] = "returned"
    /\ pc' = [pc EXCEPT ![r] = "idle"]
    /\ cres' = [cres EXCEPT ![r] = NoResult]
    /\ UNCHANGED <<nextID, disk, data, id, files, err, metaFile, resp, written,
                   issued, wrote, hist>>
    /\ UNCHANGED fetchVars
    /\ UNCHANGED logViewerVars

\* ------------------------------------------------------------- fetch: paths

\* A path is the sequence of its segments; a file name given to the client
\* is the sequence of the segments between its slashes.
backupPath == <<"api", "v2", "backup">>

Digits == <<"0", "1", "2", "3", "4", "5", "6", "7", "8", "9">>

\* fmt.Sprint(backupID), line 249, for the IDs of the model.
Sprint(i) == Digits[i + 1]

\* strconv.Atoi, line 319: the number a decimal string denotes, or an error.
Atoi(str) ==
    IF \E i \in 1..Len(Digits) : Digits[i] = str
    THEN [err |-> FALSE, n |-> (CHOOSE i \in 1..Len(Digits) : Digits[i] = str) - 1]
    ELSE [err |-> TRUE, n |-> 0]

\* filepath.Clean of a rooted path: empty and "." segments are dropped, ".."
\* removes the segment before it.
RECURSIVE CleanFrom(_, _)
CleanFrom(segs, out) ==
    IF segs = <<>> THEN out
    ELSE LET h == Head(segs) IN
         IF h = "" \/ h = "." THEN CleanFrom(Tail(segs), out)
         ELSE IF h = ".."
         THEN CleanFrom(Tail(segs),
                        IF out = <<>> THEN out ELSE SubSeq(out, 1, Len(out) - 1))
         ELSE CleanFrom(Tail(segs), Append(out, h))

\* Lines 248-250: filepath.Join(backupPath, fmt.Sprint(backupID), "file",
\* backupFile); Join cleans the joined path.
composeBackupFilePath(backupID, backupFile) ==
    CleanFrom(backupPath \o <<Sprint(backupID), "file">> \o backupFile, <<>>)

\* Lines 243 and 263: the route backupPath/:backup_id/file/:backup_file; a
\* parameter matches one segment.
Route(path) ==
    IF Len(path) = Len(backupPath) + 3
       /\ SubSeq(path, 1, Len(backupPath)) = backupPath
       /\ path[Len(backupPath) + 2] = "file"
    THEN [ok |-> TRUE, backup_id |-> path[Len(backupPath) + 1],
          backup_file |-> path[Len(backupPath) + 3]]
    ELSE [ok |-> FALSE, backup_id |-> "", backup_file |-> ""]

\* ----------------------------------------------------- fetch: inputs, helpers
FetchIDs == 1..MaxID
FileArgs == {<<"s1">>, <<DefaultFilename>>, <<"nope">>, <<>>,
             <<"..", "..", "1", "file", "s1">>}
RawIDs == {"1", "x"}                  \* backup_id of a request sent by hand
RawFiles == {"s1", "nope", DefaultFilename}
Contents == UNION {[1..n -> Bytes] : n \in 0..MaxLen}

NoArgs == [client |-> FALSE, id |-> 0, file |-> <<>>]
NoParams == [backup_id |-> "", backup_file |-> ""]
NoHandle == [open |-> FALSE, id |-> 0, name |-> ""]
NoFetchResp == [status |-> "none", body |-> <<>>]

\* The body HandleHTTPError writes: the error's report, which is no file byte.
ErrorReport == <<2>>

\* The engine's FetchBackupFile finds the file (spec 4.2): the directory of
\* the ID exists and the name is linked in it.
FileExists(i, name) ==
    /\ i \in IDs
    /\ disk[InternalBackupPath(i)].exists
    /\ name \in disk[InternalBackupPath(i)].linked

\* Lines 398-405 of the client's FetchBackupFile: a failed CheckError returns,
\* only a successful one goes on to io.CopyBuffer.
AfterCheckError(e) == IF e # Nil THEN "creturned" ELSE "ccopy"

\* --------------------------------------------- fetch: the client sends, routing

\* handleCreate has returned without reporting an error (line 310).
Succeeded(r) == pc[r] = "done" /\ hist[r].reported = Nil

\* The <<ID, name>> pairs of the manifests that create requests have
\* delivered (line 304) and that their handlers still hold.
Delivered ==
    UNION {{<<resp[r].manifest.ID, n>> : n \in Range(resp[r].manifest.Files)} :
           r \in {q \in Reqs : Succeeded(q)}}


\* Lines 379-395: the client composes the path and sends the GET; NewURL,
\* NewRequest or hc.Do may fail, and then the client returns the error.
FetchBackupFile_Do ==
    /\ fpc = "idle"
    /\ \E i \in FetchIDs, f \in FileArgs :
        /\ fargs' = [client |-> TRUE, id |-> i, file |-> f]
        /\ \/ /\ cerr' = <<"request">>
              /\ fpc' = "creturned"
              /\ UNCHANGED fparams
           \/ /\ LET rt == Route(composeBackupFilePath(i, f)) IN
                 /\ fparams' = [backup_id |-> rt.backup_id,
                                backup_file |-> rt.backup_file]
                 /\ fpc' = IF rt.ok THEN "routed" ELSE "unrouted"
              /\ UNCHANGED cerr
    /\ UNCHANGED <<bufSize, fh, fpos, ferr, fresp, cpos, csink>>
    /\ fknown' = Delivered
    /\ UNCHANGED cancelled
    /\ UNCHANGED <<disk, data, createVars>>
    /\ UNCHANGED logViewerVars

\* Line 263: a GET that another client sends, with any parameters.
Router_Get ==
    /\ fpc = "idle"
    /\ \E bid \in RawIDs, bf \in RawFiles :
          fparams' = [backup_id |-> bid, backup_file |-> bf]
    /\ fpc' = "routed"
    /\ UNCHANGED <<bufSize, fargs, fh, fpos, ferr, fresp, cpos, csink, cerr>>
    /\ fknown' = Delivered
    /\ UNCHANGED cancelled
    /\ UNCHANGED <<disk, data, createVars>>
    /\ UNCHANGED logViewerVars

\* Line 256, NewRouter: a path that matches no route is answered with an
\* error report.
Router_NotFound ==
    /\ fpc = "unrouted"
    /\ fresp' = [status |-> "error", body |-> ErrorReport]
    /\ fpc' = "fdone"
    /\ UNCHANGED <<bufSize, fargs, fparams, fh, fpos, ferr, cpos, csink, cerr>>
    /\ UNCHANGED <<disk, data, createVars>>
    /\ UNCHANGED <<cancelled, fknown>>
    /\ UNCHANGED logViewerVars

\* ------------------------------------- fetch: BackupHandler.handleFetchFile

\* Mutant: the file name is read from the wrong route parameter.
backupFile_WrongParam(params) == params.backup_id

\* Line 324: backupFile := params.ByName("backup_file").
backupFile(params) == params.backup_file

\* Lines 318-324: backupID, err := strconv.Atoi(params.ByName("backup_id")).
handleFetchFile_Atoi ==
    /\ fpc = "routed"
    /\ LET a == Atoi(fparams.backup_id) IN
       IF a.err
       THEN /\ ferr' = <<"atoi">>
            /\ fpc' = "freport"
            /\ UNCHANGED fh
       ELSE /\ fh' = [open |-> FALSE, id |-> a.n, name |-> backupFile(fparams)]
            /\ fpc' = "fopen"
            /\ UNCHANGED ferr
    /\ UNCHANGED <<bufSize, fargs, fparams, fpos, fresp, cpos, csink, cerr>>
    /\ UNCHANGED <<disk, data, createVars>>
    /\ UNCHANGED <<cancelled, fknown>>
    /\ UNCHANGED logViewerVars

\* Line 326, h.BackupService.FetchBackupFile(ctx, backupID, backupFile, w),
\* the engine (spec 4.2): it resolves the pair and opens the file, or fails
\* with not-found before anything is written.
FetchBackupFile_Open ==
    /\ fpc = "fopen"
    /\ IF FileExists(fh.id, fh.name)
       THEN /\ fh' = [fh EXCEPT !.open = TRUE]
            /\ fpc' = "fcopy"
            /\ UNCHANGED ferr
       ELSE /\ ferr' = <<"notfound">>
            /\ fpc' = "freport"
            /\ UNCHANGED fh
    /\ UNCHANGED <<bufSize, fargs, fparams, fpos, fresp, cpos, csink, cerr>>
    /\ UNCHANGED <<disk, data, createVars>>
    /\ UNCHANGED <<cancelled, fknown>>
    /\ UNCHANGED logViewerVars

\* The engine streams: one read of at most a buffer from the file and its
\* write to w.  The first write makes the status a success.
FetchBackupFile_Stream ==
    /\ fpc = "fcopy"
    /\ LET content == data[InternalBackupPath(fh.id)][fh.name]
           rem == Len(content) - fpos
       IN  /\ rem > 0
           /\ \E n \in 1..Min(bufSize, rem) :
               /\ fresp' = [status |-> "ok",
                            body |-> fresp.body \o SubSeq(content, fpos + 1, fpos + n)]
               /\ fpos' = fpos + n
    /\ UNCHANGED <<bufSize, fpc, fargs, fparams, fh, ferr, cpos, csink, cerr>>
    /\ UNCHANGED <<disk, data, createVars>>
    /\ UNCHANGED <<cancelled, fknown>>
    /\ UNCHANGED logViewerVars

\* The engine reaches the end of the file, closes it and returns nil; the
\* handler returns (line 330) and the response is a success.
FetchBackupFile_EOF ==
    /\ fpc = "fcopy"
    /\ fpos >= Len(data[InternalBackupPath(fh.id)][fh.name])
    /\ fh' = [fh EXCEPT !.open = FALSE]
    /\ fresp' = [fresp EXCEPT !.status = "ok"]
    /\ fpc' = "fdone"
    /\ UNCHANGED <<bufSize, fargs, fparams, fpos, ferr, cpos, csink, cerr>>
    /\ UNCHANGED <<disk, data, createVars>>
    /\ UNCHANGED <<cancelled, fknown>>
    /\ UNCHANGED logViewerVars

\* A read of the file or a write to w fails: the engine closes the file and
\* returns the error (spec 4.2: errors are propagated, spec 7: stream
\* failure).
FetchBackupFile_Fail ==
    /\ fpc = "fcopy"
    /\ fh' = [fh EXCEPT !.open = FALSE]
    /\ ferr' = <<"stream">>
    /\ fpc' = "freport"
    /\ UNCHANGED <<bufSize, fargs, fparams, fpos, fresp, cpos, csink, cerr>>
    /\ UNCHANGED <<disk, data, createVars>>
    /\ UNCHANGED <<cancelled, fknown>>
    /\ UNCHANGED logViewerVars

\* Lines 320-323 and 326-329: h.HandleHTTPError(ctx, err, w); return.  The
\* report is written to w after whatever w holds; the status is the error's
\* unless the first write has made it a success.
handleFetchFile_HandleHTTPError ==
    /\ fpc = "freport"
    /\ fresp' = [status |-> IF fresp.status = "none" THEN "error" ELSE fresp.status,
                 body |-> fresp.body \o ErrorReport]
    /\ fpc' = "fdone"
    /\ UNCHANGED <<bufSize, fargs, fparams, fh, fpos, ferr, cpos, csink, cerr>>
    /\ UNCHANGED <<disk, data, createVars>>
    /\ UNCHANGED <<cancelled, fknown>>
    /\ UNCHANGED logViewerVars

\* ------------------------------- fetch: the client, BackupService.FetchBackupFile

\* Lines 392-400: hc.Do returns the response, or an error when it did not
\* arrive; CheckError(resp) is asked before anything is copied.
FetchBackupFile_CheckError ==
    /\ fpc = "fdone"
    /\ fargs.client
    /\ \E doOK \in BOOLEAN :
        LET e == IF doOK THEN CheckError(fresp) ELSE <<"transport">> IN
        /\ cerr' = e
        /\ fpc' = AfterCheckError(e)
    /\ UNCHANGED <<bufSize, fargs, fparams, fh, fpos, ferr, fresp, cpos, csink>>
    /\ UNCHANGED <<disk, data, createVars>>
    /\ UNCHANGED <<cancelled, fknown>>
    /\ UNCHANGED logViewerVars

\* Line 402, io.CopyBuffer(w, resp.Body, buf), one round: a read of at most
\* len(buf) bytes of the body, and the write of the bytes read to the sink.
FetchBackupFile_CopyBuffer ==
    /\ fpc = "ccopy"
    /\ LET rem == Len(fresp.body) - cpos IN
       /\ rem > 0
       /\ \E n \in 1..Min(bufSize, rem) :
           /\ csink' = csink \o SubSeq(fresp.body, cpos + 1, cpos + n)
           /\ cpos' = cpos + n
    /\ UNCHANGED <<bufSize, fpc, fargs, fparams, fh, fpos, ferr, fresp, cerr>>
    /\ UNCHANGED <<disk, data, createVars>>
    /\ UNCHANGED <<cancelled, fknown>>
    /\ UNCHANGED logViewerVars

\* Lines 402-407: the body is at its end; CopyBuffer returns nil and so does
\* the client.
FetchBackupFile_Return ==
    /\ fpc = "ccopy"
    /\ cpos = Len(fresp.body)
    /\ cerr' = Nil
    /\ fpc' = "creturned"
    /\ UNCHANGED <<bufSize, fargs, fparams, fh, fpos, ferr, fresp, cpos, csink>>
    /\ UNCHANGED <<disk, data, createVars>>
    /\ UNCHANGED <<cancelled, fknown>>
    /\ UNCHANGED logViewerVars

\* Lines 402-405: a read of the body or a write to the sink fails; the
\* client returns the error.
FetchBackupFile_CopyFail ==
    /\ fpc = "ccopy"
    /\ cerr' = <<"copy">>
    /\ fpc' = "creturned"
    /\ UNCHANGED <<bufSize, fargs, fparams, fh, fpos, ferr, fresp, cpos, csink>>
    /\ UNCHANGED <<disk, data, createVars>>
    /\ UNCHANGED <<cancelled, fknown>>
    /\ UNCHANGED logViewerVars

\* Line 375: the caller cancels the ctx it passed to FetchBackupFile.  The
\* request of lines 384-388 is built by http.NewRequest and never given the
\* ctx (CreateBackup does so at line 353), so hc.Do and io.CopyBuffer do not
\* see the cancellation: nothing but the flag changes.
FetchBackupFile_CancelCtx ==
    /\ fargs.client
    /\ fpc \notin {"idle", "creturned"}
    /\ ~cancelled
    /\ cancelled' = TRUE
    /\ UNCHANGED <<bufSize, fpc, fargs, fparams, fh, fpos, ferr, fresp, cpos,
                   csink, cerr, fknown>>
    /\ UNCHANGED <<disk, data, createVars>>
    /\ UNCHANGED logViewerVars

\* Line 263: the route takes the next GET.
NewFetch ==
    /\ \/ fpc = "creturned"
       \/ fpc = "fdone" /\ ~fargs.client
    /\ fpc' = "idle"
    /\ fargs' = NoArgs
    /\ fparams' = NoParams
    /\ fh' = NoHandle
    /\ fpos' = 0
    /\ ferr' = Nil
    /\ fresp' = NoFetchResp
    /\ cpos' = 0
    /\ csink' = <<>>
    /\ cerr' = Nil
    /\ UNCHANGED bufSize
    /\ cancelled' = FALSE
    /\ fknown' = {}
    /\ UNCHANGED <<disk, data, createVars>>
    /\ UNCHANGED logViewerVars

InitCreate ==
    /\ nextID = 0
    /\ pc = [r \in Reqs |-> "idle"]
    /\ id = [r \in Reqs |-> 0]
    /\ files = [r \in Reqs |-> <<>>]
    /\ err = [r \in Reqs |-> Nil]
    /\ metaFile = [r \in Reqs |-> Nil]
    /\ resp = [r \in Reqs |-> NoResp]
    /\ written = [r \in Reqs |-> 0]
    /\ cres = [r \in Reqs |-> NoResult]
    /\ issued = <<>>
    /\ wrote = {}
    /\ hist = [r \in Reqs |-> NoHist]

InitFetch ==
    /\ fpc = "idle"
    /\ fargs = NoArgs
    /\ fparams = NoParams
    /\ fh = NoHandle
    /\ fpos = 0
    /\ ferr = Nil
    /\ fresp = NoFetchResp
    /\ cpos = 0
    /\ csink = <<>>
    /\ cerr = Nil
    /\ cancelled = FALSE
    /\ fknown = {}

\* No request to ReplaceLogViewerOrganizationConfig has come in.
InitNoLogViewer ==
    /\ lpc = "idle"
    /\ lcfg = NoConfig
    /\ lstore = <<>>
    /\ lstatus = NoStatus

vars == <<disk, data, createVars, fetchVars, logViewerVars>>

\* The handler after construction: no backup yet.
Init ==
    /\ InitCreate
    /\ disk = [d \in Dirs |-> NoDir]
    /\ data = [d \in Dirs |-> EmptyData]
    /\ InitFetch
    /\ bufSize = 1
    /\ InitNoLogViewer

Create(r) ==
    \/ handleCreate_CreateBackup(r)
    \/ handleCreate_OpenFile(r)
    \/ handleCreate_BackupWrite(r)
    \/ handleCreate_BackupReturn(r)
    \/ handleCreate_Encode(r)
    \/ handleCreate_RemoveAll(r)
    \/ handleCreate_HandleHTTPError(r)
    \/ CreateBackup_NoRequest(r)
    \/ CreateBackup_Return(r)
    \/ NewRequest(r)

Next == \E r \in Reqs : Create(r)

Spec == Init /\ [][Next]_vars

\* ------------------------------------ the log viewer config of an organization

\* chronograf.ColumnEncoding values of a request body.
Visible == [Type |-> "visibility", Value |-> "visible"]
Hidden == [Type |-> "visibility", Value |-> "hidden"]
Shown == [Type |-> "visibility", Value |-> "shown"]
Icon == [Type |-> "label", Value |-> "icon"]
Text == [Type |-> "label", Value |-> "text"]
NamedIcon == [Type |-> "displayName", Value |-> "icon"]

\* The Encodings of a column of a request body.
EncodingLists ==
    {<<>>, <<Visible>>, <<Hidden>>, <<Shown>>, <<Icon>>,
     <<Visible, Hidden>>, <<Visible, Shown>>,
     <<Visible, Icon>>, <<Hidden, Text>>, <<Visible, NamedIcon>>,
     <<Icon, Visible, Text>>, <<Visible, Icon, Icon>>, <<Visible, Text, Text>>}

ColumnNames == {"severity", "time"}
Positions == {0, 1}

\* chronograf.LogViewerColumn and chronograf.LogViewerConfig values.
Columns == [Name : ColumnNames, Position : Positions, Encodings : EncodingLists]
Configs == {[Columns |-> c] : c \in UNION {[1..n -> Columns] : n \in 0..MaxCols}}

\* Mutant: the value of a visibility encoding is not looked at.
validVisibility_Any(e) == TRUE

\* Line 161: e.Value == "visible" || e.Value == "hidden".
validVisibility(e) == e.Value = "visible" \/ e.Value = "hidden"

\* Lines 158-173, the loop over clm.Encodings from the k-th on: it counts the
\* visibility encodings and, in a column named severity, the encodings of
\* value icon and of value text; an invalid visibility returns at once.
RECURSIVE encodingsLoop(_, _, _)
encodingsLoop(clm, k, acc) ==
    IF k > Len(clm.Encodings) THEN acc
    ELSE LET e == clm.Encodings[k]
             isVis == e.Type = "visibility"
             sev == clm.Name = "severity"
         IN  IF isVis /\ ~validVisibility(e)
             THEN [acc EXCEPT !.err = <<"invalid visibility">>]
             ELSE encodingsLoop(clm, k + 1,
                    [visibility |-> IF isVis THEN acc.visibility + 1
                                    ELSE acc.visibility,
                     iconCount |-> IF sev /\ e.Value = "icon"
                                   THEN acc.iconCount + 1 ELSE acc.iconCount,
                     textCount |-> IF sev /\ e.Value # "icon" /\ e.Value = "text"
                                   THEN acc.textCount + 1 ELSE acc.textCount,
                     err |-> Nil])

\* Lines 143-184, the loop over cfg.Columns from the i-th on, with the names
\* and the positions seen so far.
RECURSIVE columnsLoop(_, _, _, _)
columnsLoop(cols, i, nameMatcher, positionMatcher) ==
    IF i > Len(cols) THEN Nil
    ELSE LET clm == cols[i]
             c == encodingsLoop(clm, 1,
                     [visibility |-> 0, iconCount |-> 0, textCount |-> 0,
                      err |-> Nil])
         IN  IF clm.Name \in nameMatcher THEN <<"duplicate column name">>
             ELSE IF clm.Position \in positionMatcher
             THEN <<"same position value">>
             ELSE IF c.err # Nil THEN c.err
             ELSE IF c.visibility # 1 THEN <<"missing visibility encoding">>
             ELSE IF /\ clm.Name = "severity"
                     /\ \/ c.iconCount + c.textCount = 0
                        \/ c.iconCount > 1
                        \/ c.textCount > 1
             THEN <<"invalid number of severity format encodings">>
             ELSE columnsLoop(cols, i + 1, nameMatcher \cup {clm.Name},
                              positionMatcher \cup {clm.Position})

\* Lines 135-187: validLogViewerConfig(cfg), nil or the error.
validLogViewerConfig(cfg) ==
    IF Len(cfg.Columns) = 0 THEN <<"must have at least 1 column">>
    ELSE columnsLoop(cfg.Columns, 1, {}, {})

backupFrame == UNCHANGED <<disk, data, createVars, fetchVars>>

\* Lines 92-98: hasOrganizationContext(ctx).
ReplaceLogViewer_Context ==
    /\ lpc = "start"
    /\ \/ /\ lpc' = "decode"
          /\ UNCHANGED lstatus
       \/ /\ lstatus' = [code |-> "badRequest", msg |-> <<"no organization">>]
          /\ lpc' = "done"
    /\ UNCHANGED <<lcfg, lstore>>
    /\ backupFrame

\* Lines 100-104: the body is decoded into logViewerConfig, or is not JSON.
ReplaceLogViewer_Decode ==
    /\ lpc = "decode"
    /\ \/ /\ lpc' = "validate"
          /\ UNCHANGED lstatus
       \/ /\ lstatus' = [code |-> "invalidJSON", msg |-> Nil]
          /\ lpc' = "done"
    /\ UNCHANGED <<lcfg, lstore>>
    /\ backupFrame

\* Lines 105-108: a config that validLogViewerConfig rejects is answered
\* with the error and the handler returns.
ReplaceLogViewer_Valid ==
    /\ lpc = "validate"
    /\ LET e == validLogViewerConfig(lcfg) IN
       IF e # Nil
       THEN /\ lstatus' = [code |-> "badRequest", msg |-> e]
            /\ lpc' = "done"
       ELSE /\ lpc' = "find"
            /\ UNCHANGED lstatus
    /\ UNCHANGED <<lcfg, lstore>>
    /\ backupFrame

\* Lines 110-118: FindOrCreate of the store fails, returns nil, or returns
\* the organization's config.
ReplaceLogViewer_FindOrCreate ==
    /\ lpc = "find"
    /\ \/ /\ lpc' = "update"
          /\ UNCHANGED lstatus
       \/ /\ \E m \in {<<"find">>, <<"configuration object was nil">>} :
               lstatus' = [code |-> "badRequest", msg |-> m]
          /\ lpc' = "done"
    /\ UNCHANGED <<lcfg, lstore>>
    /\ backupFrame

\* Lines 119-127: config.LogViewer = logViewerConfig and Update of the store
\* is called with it; the answer is the config, or the error of Update.
ReplaceLogViewer_Update ==
    /\ lpc = "update"
    /\ lstore' = Append(lstore, lcfg)
    /\ \/ lstatus' = [code |-> "ok", msg |-> Nil]
       \/ lstatus' = [code |-> "unknownError", msg |-> <<"update">>]
    /\ lpc' = "done"
    /\ UNCHANGED lcfg
    /\ backupFrame

\* ----------------------------- the handler alone: creates and fetches together

\* handleCreate, from the request to the handler's return.
Handle(r) ==
    \/ handleCreate_CreateBackup(r)
    \/ handleCreate_OpenFile(r)
    \/ handleCreate_BackupWrite(r)
    \/ handleCreate_BackupReturn(r)
    \/ handleCreate_Encode(r)
    \/ handleCreate_RemoveAll(r)
    \/ handleCreate_HandleHTTPError(r)

\* handleFetchFile, for one GET after the other.
Serve ==
    \/ Router_Get
    \/ handleFetchFile_Atoi
    \/ FetchBackupFile_Open
    \/ FetchBackupFile_Stream
    \/ FetchBackupFile_EOF
    \/ FetchBackupFile_Fail
    \/ handleFetchFile_HandleHTTPError
    \/ NewFetch

\* The routes of NewBackupHandler (lines 262-263) served together: each
\* create request is handled once, fetch requests come at any time.
NextHandler == (\E r \in Reqs : Handle(r)) \/ Serve

SpecHandler == Init /\ [][NextHandler]_vars

\* --------------------------------------------- the log viewer specification

\* A PUT of the log viewer config with any body of Configs.
InitLogViewer ==
    /\ InitCreate
    /\ disk = [d \in Dirs |-> NoDir]
    /\ data = [d \in Dirs |-> EmptyData]
    /\ InitFetch
    /\ bufSize = 1
    /\ lpc = "start"
    /\ lcfg \in Configs
    /\ lstore = <<>>
    /\ lstatus = NoStatus

NextLogViewer ==
    \/ ReplaceLogViewer_Context
    \/ ReplaceLogViewer_Decode
    \/ ReplaceLogViewer_Valid
    \/ ReplaceLogViewer_FindOrCreate
    \/ ReplaceLogViewer_Update

SpecLogViewer == InitLogViewer /\ [][NextLogViewer]_vars

\* ------------------------------------------------ the retrieval specification

\* One backup has been created, with ID 1: its directory holds the shard
\* file s1, of any content, and the metadata snapshot.
InitRetrieval ==
    /\ nextID = 1
    /\ pc = [r \in Reqs |-> "idle"]
    /\ id = [r \in Reqs |-> 0]
    /\ files = [r \in Reqs |-> <<>>]
    /\ err = [r \in Reqs |-> Nil]
    /\ metaFile = [r \in Reqs |-> Nil]
    /\ resp = [r \in Reqs |-> NoResp]
    /\ written = [r \in Reqs |-> 0]
    /\ cres = [r \in Reqs |-> NoResult]
    /\ issued = <<1>>
    /\ wrote = {<<1, InternalBackupPath(1)>>}
    /\ hist = [r \in Reqs |-> NoHist]
    /\ \E c \in Contents :
        /\ disk = [d \in Dirs |-> IF d = InternalBackupPath(1)
                      THEN [exists |-> TRUE, linked |-> {"s1", DefaultFilename}]
                      ELSE NoDir]
        /\ data = [d \in Dirs |-> IF d = InternalBackupPath(1)
                      THEN [n \in Names |-> IF n = "s1" THEN c
                                            ELSE IF n = DefaultFilename THEN Snapshot
                                            ELSE <<>>]
                      ELSE EmptyData]
    /\ InitFetch
    /\ bufSize \in 1..MaxBuf
    /\ InitNoLogViewer

Fetch ==
    \/ FetchBackupFile_Do
    \/ Router_Get
    \/ Router_NotFound
    \/ handleFetchFile_Atoi
    \/ FetchBackupFile_Open
    \/ FetchBackupFile_Stream
    \/ FetchBackupFile_EOF
    \/ FetchBackupFile_Fail
    \/ handleFetchFile_HandleHTTPError
    \/ FetchBackupFile_CheckError
    \/ FetchBackupFile_CopyBuffer
    \/ FetchBackupFile_Return
    \/ FetchBackupFile_CopyFail
    \/ FetchBackupFile_CancelCtx
    \/ NewFetch

NextRetrieval == Fetch

SpecRetrieval == InitRetrieval /\ [][NextRetrieval]_vars

\* ----------------------------------------------------------------- properties

NoDup(q) == \A i, j \in 1..Len(q) : q[i] = q[j] => i = j


\* C1: when a create request whose ID was allocated fails at a later step and
\* os.RemoveAll succeeds, the directory of the ID is gone before the error is
\* reported (the handler stands before HandleHTTPError) and when the handler
\* has returned.
C1_RollbackRemovesDirectory ==
    \A r \in Reqs :
        (pc[r] \in {"report", "done"} /\ hist[r].rm = "ok")
            => /\ id[r] # 0
               /\ ~disk[InternalBackupPath(id[r])].exists

C1_Witness ==
    \E r \in Reqs :
        /\ pc[r] = "done"
        /\ hist[r].rm = "ok"
        /\ hist[r].trigger = <<"snapshot">>
        /\ hist[r].reported # Nil
        /\ written[r] > 0

\* C2: when the engine's CreateBackup fails after it has made the directory
\* and staged shard files, the directory does not exist once the create
\* request has returned, and the reported error is the staging failure.
C2_StagingFailureRollsBack ==
    \A r \in Reqs :
        (pc[r] = "done" /\ hist[r].trigger = <<"staging">>)
            => /\ ~disk[hist[r].staged].exists
               /\ hist[r].reported = <<"staging">>

\* C3: a failing create request that rolls back reports the error that
\* triggered the rollback, followed by the error of os.RemoveAll exactly when
\* os.RemoveAll failed.
C3_ErrorAggregation ==
    \A r \in Reqs :
        (pc[r] = "done" /\ hist[r].rm # "none")
            => /\ hist[r].trigger # Nil
               /\ hist[r].reported =
                     hist[r].trigger \o
                        (IF hist[r].rm = "failed" THEN <<"remove">> ELSE Nil)
               /\ resp[r].error = hist[r].reported

C3_Witness ==
    \E r \in Reqs :
        /\ pc[r] = "done"
        /\ hist[r].rm = "failed"
        /\ hist[r].reported = <<"open", "remove">>

\* C4: whatever the interleaving of the create requests, no ID is handed out
\* twice, two requests at work never hold the same ID, and no directory is
\* written under two IDs.
C4_DistinctIDsAndDirectories ==
    /\ NoDup(issued)
    /\ \A r1, r2 \in Reqs :
          (r1 # r2 /\ id[r1] # 0 /\ id[r2] # 0) => id[r1] # id[r2]
    /\ \A w1, w2 \in wrote : w1[2] = w2[2] => w1[1] = w2[1]

C4_Witness ==
    \E r1, r2 \in Reqs :
        /\ r1 # r2
        /\ Succeeded(r1)
        /\ Succeeded(r2)
        /\ id[r1] # id[r2]

\* C5: in every reachable state, the directory of every ID the engine has
\* handed to a create request either does not exist or holds the completely
\* written metadata snapshot.
C5_DirectoryAbsentOrComplete ==
    \A i \in Range(issued) :
        disk[InternalBackupPath(i)].exists
            => /\ DefaultFilename \in disk[InternalBackupPath(i)].linked
               /\ data[InternalBackupPath(i)][DefaultFilename] = Snapshot

\* C6: the Files of the manifest of a create request that returned without
\* error are the engine's shard names in the engine's order followed by the
\* reserved metadata name; the list is not empty and holds the reserved name
\* once.
C6_ManifestFiles ==
    \A r \in Reqs :
        Succeeded(r)
            => LET fs == resp[r].manifest.Files IN
               /\ resp[r].manifest.state = "full"
               /\ fs = hist[r].engineFiles \o <<DefaultFilename>>
               /\ Len(fs) > 0
               /\ Cardinality({i \in 1..Len(fs) : fs[i] = DefaultFilename}) = 1

C6_Witness ==
    \E r \in Reqs :
        /\ Succeeded(r)
        /\ Len(hist[r].engineFiles) = 2
        /\ Len(resp[r].manifest.Files) = 3

\* C7: when a create request has returned without error, the directory of
\* the manifest's ID exists and the names linked in it are the names of the
\* manifest's Files, each listed once.
C7_DirectoryMatchesFiles ==
    \A r \in Reqs :
        Succeeded(r)
            => LET m == resp[r].manifest
                   d == InternalBackupPath(m.ID)
               IN  /\ m.ID \in 1..MaxID
                   /\ disk[d].exists
                   /\ disk[d].linked = Range(m.Files)
                   /\ NoDup(m.Files)

C7_Witness ==
    \E r \in Reqs :
        /\ Succeeded(r)
        /\ disk[InternalBackupPath(resp[r].manifest.ID)].linked = Names

\* C8: a manifest, or a part of one, is in the response only after Backup
\* has returned nil with the whole snapshot written; a request that failed at
\* allocation, staging, opening or snapshotting has no manifest in its
\* response; and the client's CreateBackup returns ID 0 and no Files with
\* every error.
C8_ManifestOnlyAfterSnapshot ==
    \A r \in Reqs :
        /\ resp[r].manifest.state # "none"
              => /\ hist[r].snapOK
                 /\ written[r] = Len(Snapshot)
                 /\ hist[r].rm = "none" =>
                       data[InternalBackupPath(id[r])][DefaultFilename] = Snapshot
        /\ hist[r].trigger \in {<<"alloc">>, <<"staging">>, <<"open">>, <<"snapshot">>}
              => resp[r].manifest.state = "none"
        /\ cres[r].err # Nil => (cres[r].ID = 0 /\ cres[r].Files = <<>>)

C8_Witness ==
    \E r1, r2 \in Reqs :
        /\ pc[r1] = "done"
        /\ resp[r1].manifest.state = "full"
        /\ pc[r2] = "done"
        /\ hist[r2].trigger = <<"snapshot">>
        /\ written[r2] = 1

\* A pair the engine cannot find: the directory of the ID does not exist, or
\* the name is one segment that is not linked in it.
Missing(i, f) ==
    \/ ~disk[InternalBackupPath(i)].exists
    \/ Len(f) = 1 /\ f[1] \notin disk[InternalBackupPath(i)].linked

\* C9: the client's FetchBackupFile of a pair whose directory or file does
\* not exist returns an error and has written nothing to the caller's sink.
C9_FetchMissingWritesNothing ==
    (fpc = "creturned" /\ fargs.client /\ Missing(fargs.id, fargs.file))
        => (cerr # Nil /\ csink = <<>>)

\* C10: the client's FetchBackupFile of an existing file that returns nil
\* has written to the sink exactly the bytes of the file.
C10_FetchReproducesFile ==
    (/\ fpc = "creturned"
     /\ fargs.client
     /\ cerr = Nil
     /\ Len(fargs.file) = 1
     /\ FileExists(fargs.id, fargs.file[1]))
        => csink = data[InternalBackupPath(fargs.id)][fargs.file[1]]

\* C11: once the caller has cancelled the context of its FetchBackupFile,
\* the transfer is aborted: no further byte is copied into the caller's sink.
C11_CancelAbortsTransfer ==
    [][(cancelled /\ fpc = "ccopy") => csink' = csink]_vars

\* C17: the request the client's FetchBackupFile sends is routed to the fetch
\* of exactly the backup ID and the file name it was called with.
C17_PathAddressesArguments ==
    (fargs.client /\ fpc = "routed")
        => (/\ fparams.backup_id = Sprint(fargs.id)
            /\ fargs.file = <<fparams.backup_file>>)

\* Does a response body hold bytes of a file; does it hold an error report.
HasFileBytes(body) == \E i \in 1..Len(body) : body[i] \in Bytes
HasErrorReport(body) == \E i \in 1..Len(body) : body[i] \notin Bytes

\* C19: the response of handleFetchFile holds bytes of the file only or an
\* error report only, never both; a backup_id that is not an integer is
\* answered with an error report without the engine's retrieval being called.
C19_BytesOrReportOnly ==
    /\ ~(HasFileBytes(fresp.body) /\ HasErrorReport(fresp.body))
    /\ ferr = <<"atoi">> =>
          (fh = NoHandle /\ fpos = 0 /\ ~HasFileBytes(fresp.body))
    /\ (fpc = "fdone" /\ ferr = <<"atoi">>) => HasErrorReport(fresp.body)

\* A create request failed at the metadata snapshot (line 294) and its
\* rollback removed the directory.
RolledBackAtSnapshot(r) ==
    /\ pc[r] \in {"report", "done"}
    /\ hist[r].trigger = <<"snapshot">>
    /\ hist[r].rm = "ok"

\* C12: after a create request has failed at the metadata snapshot and has
\* been rolled back, the directory of its ID does not exist; the ID of a
\* removed directory is given to no later request and its directory is not
\* made again.
C12_FailedIDNeverReused ==
    [][/\ \A r \in Reqs : RolledBackAtSnapshot(r)' =>
              ~disk'[InternalBackupPath(id'[r])].exists
       /\ \A i \in Range(issued) : ~disk[InternalBackupPath(i)].exists =>
              /\ ~disk'[InternalBackupPath(i)].exists
              /\ \A r \in Reqs : id'[r] = i => id[r] = i]_vars

\* A request was rolled back at the snapshot, and a request that got a later
\* ID succeeded.
C12_Witness ==
    \E r1, r2 \in Reqs :
        /\ RolledBackAtSnapshot(r1)
        /\ Succeeded(r2)
        /\ id[r2] > id[r1]
        /\ disk[InternalBackupPath(id[r2])].exists

\* C16: a create request whose CreateBackup of the engine failed reports
\* that error and does nothing else: it opens no metadata file, the
\* snapshotter writes nothing, no manifest is written and RemoveAll is not
\* called.
C16_AllocationFailureOnlyReports ==
    \A r \in Reqs :
        hist[r].trigger \in {<<"alloc">>, <<"staging">>} =>
            /\ pc[r] \in {"report", "done"}
            /\ metaFile[r] = Nil
            /\ written[r] = 0
            /\ resp[r].manifest.state = "none"
            /\ hist[r].rm = "none"
            /\ pc[r] = "done" =>
                  (resp[r].status = "error" /\ resp[r].error = hist[r].trigger)

\* The allocation failed and the handler has returned.
C16_Witness ==
    \E r \in Reqs : pc[r] = "done" /\ hist[r].trigger = <<"alloc">>

\* C18: the metadata file handle a create request opened is closed when the
\* request has returned.
C18_MetaFileClosedOnReturn ==
    \A r \in Reqs : pc[r] \in {"done", "returned", "idle"} => metaFile[r] = Nil

\* The pair a fetch request asks for was in a manifest delivered before the
\* request came in.
FetchOfDelivered ==
    /\ ~Atoi(fparams.backup_id).err
    /\ <<Atoi(fparams.backup_id).n, fparams.backup_file>> \in fknown

\* The bytes that the create of a backup put under a name of its manifest.
BytesOf(name) == IF name = DefaultFilename THEN Snapshot ELSE ShardContent

\* C13: a fetch of a pair <<ID, name>> of a manifest that a create request
\* delivered before is never answered with not-found, streams only bytes of
\* the file the create wrote, and when the engine returns nil the response
\* is exactly those bytes: the snapshot for the metadata name.
C13_FetchAfterCreate ==
    FetchOfDelivered =>
        /\ ferr \notin {<<"atoi">>, <<"notfound">>}
        /\ fpc \in {"fcopy", "freport"} =>
              fresp.body = SubSeq(BytesOf(fparams.backup_file), 1, fpos)
        /\ (fpc = "fdone" /\ ferr = Nil) =>
              (fresp.status = "ok" /\ fresp.body = BytesOf(fparams.backup_file))

\* The metadata file of a delivered manifest has been fetched whole.
C13_Witness ==
    /\ FetchOfDelivered
    /\ fparams.backup_file = DefaultFilename
    /\ fpc = "fdone"
    /\ ferr = Nil
    /\ fresp.body = Snapshot

\* C14: RemoveAll is called only after a step of the create failed; no step
\* of a fetch changes a directory; the directory of a create that succeeded
\* is changed or removed by no later step.
C14_RemoveOnlyAsRollback ==
    [][/\ \A r \in Reqs : hist'[r].trigger = Nil => hist'[r].rm = "none"
       /\ fetchVars' # fetchVars => (disk' = disk /\ data' = data)
       /\ \A r \in Reqs : Succeeded(r) =>
             LET d == InternalBackupPath(resp[r].manifest.ID) IN
                 disk'[d] = disk[d] /\ data'[d] = data[d]]_vars

\* One create succeeded, the other was rolled back after it, and a fetch of
\* the first one's file is open.
C14_Witness ==
    \E r1, r2 \in Reqs :
        /\ Succeeded(r1)
        /\ hist[r1].rm = "none"
        /\ hist[r2].rm = "ok"
        /\ id[r2] > id[r1]
        /\ fh.open /\ fh.id = id[r1]
        /\ disk[InternalBackupPath(id[r1])].linked = Range(resp[r1].manifest.Files)

\* C15: the rollback of a create request leaves every directory but the one
\* of the request's own ID as it is, and a fetch that has a file of another
\* backup open still finds it.
C15_RollbackOnlyOwnDirectory ==
    [][\A r \in Reqs : (pc[r] = "rollback" /\ pc'[r] # "rollback") =>
          /\ \A d \in Dirs \ {InternalBackupPath(id[r])} :
                disk'[d] = disk[d] /\ data'[d] = data[d]
          /\ (fh.open /\ fh.id # id[r] /\ FileExists(fh.id, fh.name)) =>
                /\ fh' = fh
                /\ fh.name \in disk'[InternalBackupPath(fh.id)].linked
                /\ data'[InternalBackupPath(fh.id)][fh.name]
                       = data[InternalBackupPath(fh.id)][fh.name]]_vars

\* A rollback has removed its directory while a fetch has a file of another
\* backup open and the other create request's directory is there.
C15_Witness ==
    \E r1, r2 \in Reqs :
        /\ pc[r1] = "report" /\ hist[r1].rm = "ok"
        /\ ~disk[InternalBackupPath(id[r1])].exists
        /\ id[r2] \notin {0, id[r1]}
        /\ disk[InternalBackupPath(id[r2])].exists
        /\ fh.open /\ fh.id = id[r2] /\ fpos > 0

\* The encodings of a column that each counter of lines 159-171 counts.
Visibilities(clm) ==
    {k \in 1..Len(clm.Encodings) : clm.Encodings[k].Type = "visibility"}
ValidVisibilities(clm) ==
    {k \in Visibilities(clm) : clm.Encodings[k].Value \in {"visible", "hidden"}}
Icons(clm) == {k \in 1..Len(clm.Encodings) : clm.Encodings[k].Value = "icon"}
Texts(clm) == {k \in 1..Len(clm.Encodings) : clm.Encodings[k].Value = "text"}

\* No two columns with the same name or the same position.
UniqueColumns(cols) ==
    \A i, j \in 1..Len(cols) :
        (cols[i].Name = cols[j].Name \/ cols[i].Position = cols[j].Position)
            => i = j

\* The conditions as validLogViewerConfig has them: exactly one visibility
\* encoding per column, of a valid value; in a column named severity at
\* least one encoding of value icon or text, at most one of each.
Acceptable(cfg) ==
    /\ Len(cfg.Columns) >= 1
    /\ UniqueColumns(cfg.Columns)
    /\ \A i \in 1..Len(cfg.Columns) :
         LET clm == cfg.Columns[i] IN
           /\ Cardinality(Visibilities(clm)) = 1
           /\ Visibilities(clm) = ValidVisibilities(clm)
           /\ clm.Name = "severity" =>
                 /\ Icons(clm) \cup Texts(clm) # {}
                 /\ Cardinality(Icons(clm)) <= 1
                 /\ Cardinality(Texts(clm)) <= 1

\* The conditions as the claim has them: some visibility encoding of a valid
\* value per column; in a column named severity at least one severity format.
AcceptableAsClaimed(cfg) ==
    /\ Len(cfg.Columns) >= 1
    /\ UniqueColumns(cfg.Columns)
    /\ \A i \in 1..Len(cfg.Columns) :
         LET clm == cfg.Columns[i] IN
           /\ ValidVisibilities(clm) # {}
           /\ clm.Name = "severity" => Icons(clm) \cup Texts(clm) # {}

\* The handler is past validLogViewerConfig (line 108).
PastValidation ==
    \/ lpc \in {"find", "update"}
    \/ lstore # <<>>
    \/ lstatus.code \in {"ok", "unknownError"}
    \/ lstatus.msg \in {<<"find">>, <<"configuration object was nil">>}

====
